---- MODULE Spec2Model ----
(***************************************************************************)
(* Model of the MTX phenotype application: the streak engine of            *)
(* src/processing.py, the diagnostic rules of src/diagnostics.py and the   *)
(* cross-rule summary of app.py.                                           *)
(*                                                                         *)
(* A data frame is a sequence of rows in frame order.  A row is a function *)
(* from column names to cells and carries its index label in "index".     *)
(* Timestamps are minutes since the epoch.  Numeric lab values are held in *)
(* tenths (the finest slider step of the rules is 0.1).                    *)
(***************************************************************************)
EXTENDS Integers, Sequences, FiniteSets, TLC

VARIABLES df, ret, samples, selected, diagnostics, download, pc

vars == <<df, ret, samples, selected, diagnostics, download, pc>>

(***************************************************************************)
(* Column names, src/constants.py                                          *)
(***************************************************************************)
SAMPLE_TIME == "REALSAMPLECOLLECTIONTIME"
P_CODE == "OL_INVER_IUPAC_CDE"
PATIENT_ID == "NOPHO_NR"
VALUE == "INTERNAL_REPLY_NUM"
REF_PATIENT == "REFTEXT"
DETECTION == "detection"
INDEX == "index"

(***************************************************************************)
(* Bounds of the model                                                     *)
(***************************************************************************)
MaxRows == 3          \* rows of a boolean signal handed to the streak engine
MaxTick == 2          \* signal timestamps are 0..MaxTick ticks
TickMinutes == 30     \* minutes per tick of a signal timestamp
MaxThreshold == 2     \* longer_than_n_hours is drawn from 0..MaxThreshold

PatientIds == {0, 1}

\* np.timedelta64(1, "h") expressed in the model's time unit
MinutesPerHour == 60

(***************************************************************************)
(* Generic helpers                                                         *)
(***************************************************************************)
Range(s) == {s[i] : i \in DOMAIN s}

SetMin(S) == CHOOSE x \in S : \A y \in S : x <= y

SetMax(S) == CHOOSE x \in S : \A y \in S : x >= y

\* the cell of column col in the row labelled lbl of series or frame s
AtLabel(s, lbl, col) == s[CHOOSE k \in DOMAIN s : s[k][INDEX] = lbl][col]

Labels(s) == [i \in DOMAIN s |-> s[i][INDEX]]

\* a frame or series is held as an explicit sequence of rows
Materialized(s) == s \o <<>>

(***************************************************************************)
(* DataFrame.sort_values([a, b]): a stable sort on the two key columns     *)
(***************************************************************************)
KeyLessEq(r1, r2, a, b) ==
    \/ r1[a] < r2[a]
    \/ r1[a] = r2[a] /\ r1[b] <= r2[b]

\* r goes after every row whose key is less than or equal to its own
InsertSorted(s, r, a, b) ==
    LET n == Cardinality({i \in DOMAIN s : KeyLessEq(s[i], r, a, b)})
    IN  SubSeq(s, 1, n) \o <<r>> \o SubSeq(s, n + 1, Len(s))

RECURSIVE sort_values(_, _, _)
sort_values(f, a, b) ==
    IF f = <<>> THEN <<>>
    ELSE InsertSorted(sort_values(SubSeq(f, 1, Len(f) - 1), a, b), f[Len(f)], a, b)

(***************************************************************************)
(* src/processing.py: compute_streaks_of_detection                         *)
(***************************************************************************)
\* position of the previous row of the same group, 0 when there is none
PrevInGroup(f, k, column_patient_id) ==
    LET before == {j \in 1..(k - 1) : f[j][column_patient_id] = f[k][column_patient_id]}
    IN  IF before = {} THEN 0 ELSE SetMax(before)

ShiftedUngroupedPrev(f, k, column_patient_id) == k - 1

\* groupby(column_patient_id)[column_variable].shift(1): the position the
\* shifted cell of row k is taken from (0: the cell is NaN)
ShiftedFrom(f, k, column_patient_id) == PrevInGroup(f, k, column_patient_id)

\* df[column_variable].ne(df["shifted_..."]): NaN differs from every flag
start_of_streak(f, k, column_variable, column_patient_id) ==
    LET p == ShiftedFrom(f, k, column_patient_id)
    IN  IF p = 0 THEN TRUE ELSE f[k][column_variable] # f[p][column_variable]

\* groupby(column_patient_id)["start_of_streak"].cumsum()
GroupCumSum(f, k, column_variable, column_patient_id) ==
    Cardinality({j \in 1..k :
        /\ f[j][column_patient_id] = f[k][column_patient_id]
        /\ start_of_streak(f, j, column_variable, column_patient_id)})

\* the returned series df["streak_id"]: one entry per row, in sorted order,
\* labelled with the row's index
compute_streaks_of_detection(f, column_variable, column_patient_id, column_date) ==
    LET sorted == sort_values(f, column_patient_id, column_date)
    IN  Materialized([k \in DOMAIN sorted |->
            [index |-> sorted[k][INDEX],
             value |-> GroupCumSum(sorted, k, column_variable, column_patient_id)]])

(***************************************************************************)
(* src/processing.py: is_streak_longer_than_duration                       *)
(***************************************************************************)
\* data["streak_id"] = <series>: assignment aligns on the index label
WithStreakId(f, series) ==
    Materialized([k \in DOMAIN f |->
        [r |-> f[k], streak_id |-> AtLabel(series, f[k][INDEX], "value")]])

GroupOfAnyPatient(data, k, column_patient_id) ==
    {j \in DOMAIN data : data[j].streak_id = data[k].streak_id}

\* positions of the rows of one (patient, streak_id) group, in frame order
GroupOf(data, k, column_patient_id) ==
    {j \in DOMAIN data :
        /\ data[j].r[column_patient_id] = data[k].r[column_patient_id]
        /\ data[j].streak_id = data[k].streak_id}

StreakDurationNoConversion(min_date, max_date) ==
    [num |-> max_date - min_date, den |-> 1]

\* (max_date - min_date) / np.timedelta64(1, "h"), kept as an exact fraction
StreakDuration(min_date, max_date) ==
    [num |-> max_date - min_date, den |-> MinutesPerHour]

LongerThanOrEqual(duration, longer_than_n_hours) ==
    duration.num >= longer_than_n_hours * duration.den

\* streak_duration > longer_than_n_hours
LongerThan(duration, longer_than_n_hours) ==
    duration.num > longer_than_n_hours * duration.den

\* the aggregated row of the streak that holds row k, with its verdict
StreakAgg(data, k, column_variable, column_patient_id, column_date, longer_than_n_hours) ==
    LET g == GroupOf(data, k, column_patient_id)
        min_date == SetMin({data[j].r[column_date] : j \in g})
        max_date == SetMax({data[j].r[column_date] : j \in g})
        is_streak_positive == data[SetMin(g)].r[column_variable]
        streak_duration == StreakDuration(min_date, max_date)
    IN  [min_date |-> min_date, max_date |-> max_date,
         is_streak_positive |-> is_streak_positive,
         streak_duration |-> streak_duration,
         verdict |-> LongerThan(streak_duration, longer_than_n_hours) /\ is_streak_positive]

IsLongIgnoringSign(f, column_variable, column_patient_id, column_date, longer_than_n_hours) ==
    LET data == WithStreakId(f,
                    compute_streaks_of_detection(f, column_variable, column_patient_id, column_date))
    IN  Materialized([k \in DOMAIN data |->
            [index |-> data[k].r[INDEX],
             value |-> LongerThan(StreakAgg(data, k, column_variable, column_patient_id,
                                            column_date, longer_than_n_hours).streak_duration,
                                  longer_than_n_hours)]])

IsLongPositional(f, column_variable, column_patient_id, column_date, longer_than_n_hours) ==
    LET sorted == sort_values(f, column_patient_id, column_date)
        data == WithStreakId(sorted,
                    compute_streaks_of_detection(f, column_variable, column_patient_id, column_date))
    IN  Materialized([k \in DOMAIN f |->
            [index |-> f[k][INDEX],
             value |-> /\ data[k].r[column_variable]
                       /\ StreakAgg(data, k, column_variable, column_patient_id,
                                    column_date, longer_than_n_hours).verdict]])

\* the returned series: the left join keeps the rows of data in frame order,
\* set_index("index") restores their labels
is_streak_longer_than_duration(f, column_variable, column_patient_id, column_date, longer_than_n_hours) ==
    LET data == WithStreakId(f,
                    compute_streaks_of_detection(f, column_variable, column_patient_id, column_date))
    IN  Materialized([k \in DOMAIN data |->
            [index |-> data[k].r[INDEX],
             value |-> /\ data[k].r[column_variable]
                       /\ StreakAgg(data, k, column_variable, column_patient_id,
                                    column_date, longer_than_n_hours).verdict]])

(***************************************************************************)
(* Boolean signals handed to the streak engine                             *)
(***************************************************************************)
SignalRow(i, p, t, d) ==
    [index |-> i, NOPHO_NR |-> p, REALSAMPLECOLLECTIONTIME |-> t, detection |-> d]

\* a frame built from columns, with the default RangeIndex 0..n-1
SignalFrame(pids, hours, flags) ==
    [k \in DOMAIN pids |-> SignalRow(k - 1, pids[k], hours[k] * MinutesPerHour, flags[k])]

SignalTimes == {k * TickMinutes : k \in 0..MaxTick}

SignalCells == PatientIds \X SignalTimes \X BOOLEAN

\* df is a frame of at most MaxRows rows with the default RangeIndex
IsBoundedSignal(f) ==
    \E n \in 0..MaxRows : \E c \in [1..n -> SignalCells] :
        f = [k \in 1..n |-> SignalRow(k - 1, c[k][1], c[k][2], c[k][3])]

\* tests/test_processing.py: test_compute_streaks
FixtureComputeStreaks ==
    SignalFrame(<<0, 0, 0, 0, 0, 1, 1, 1, 1, 1>>,
                <<0, 1, 2, 3, 4, 0, 1, 2, 3, 4>>,
                <<FALSE, FALSE, TRUE, TRUE, TRUE, TRUE, TRUE, FALSE, TRUE, TRUE>>)

\* tests/test_processing.py: test_is_streak_longer_than_duration
FixtureLongStreaks ==
    SignalFrame(<<0, 0, 0, 0, 0, 1, 1, 1, 1, 1>>,
                <<0, 1, 2, 3, 4, 0, 4, 8, 9, 13>>,
                <<TRUE, TRUE, TRUE, TRUE, FALSE, TRUE, TRUE, FALSE, TRUE, TRUE>>)

\* one patient, flags [T,T,F,T,T] at hours [0,1,2,3,4]
ScenarioHourly ==
    SignalFrame(<<1, 1, 1, 1, 1>>, <<0, 1, 2, 3, 4>>, <<TRUE, TRUE, FALSE, TRUE, TRUE>>)

\* the same flags at the hours of patient 1 of the reference fixture
ScenarioFixtureHours ==
    SignalFrame(<<1, 1, 1, 1, 1>>, <<0, 4, 8, 9, 13>>, <<TRUE, TRUE, FALSE, TRUE, TRUE>>)

Fixtures == {FixtureComputeStreaks, FixtureLongStreaks, ScenarioHourly, ScenarioFixtureHours}

NoCall == [call |-> "none", n |-> 0, value |-> <<>>]

InitStreak ==
    /\ \/ IsBoundedSignal(df)
       \/ df \in Fixtures
    /\ ret = NoCall
    /\ samples = <<>>
    /\ selected = <<>>
    /\ diagnostics = <<>>
    /\ download = [called |-> FALSE, error |-> "none", all_dfs |-> <<>>]
    /\ pc = [phase |-> "streak", i |-> 0]

CallComputeStreaks ==
    /\ ret.call = "none"
    /\ ret' = [call |-> "compute_streaks_of_detection", n |-> 0,
               value |-> compute_streaks_of_detection(df, DETECTION, PATIENT_ID, SAMPLE_TIME)]
    /\ UNCHANGED <<df, samples, selected, diagnostics, download, pc>>

CallIsStreakLonger ==
    /\ ret.call = "none"
    /\ \E n \in 0..MaxThreshold :
        ret' = [call |-> "is_streak_longer_than_duration", n |-> n,
                value |-> is_streak_longer_than_duration(df, DETECTION, PATIENT_ID,
                                                         SAMPLE_TIME, n)]
    /\ UNCHANGED <<df, samples, selected, diagnostics, download, pc>>

NextStreak == CallComputeStreaks \/ CallIsStreakLonger

SpecStreak == InitStreak /\ [][NextStreak]_vars

(***************************************************************************)
(* Cells of the samples table                                              *)
(***************************************************************************)
\* a missing numeric cell (float NaN); lab values are never negative
NaN == 0 - 1

\* comparisons of pandas: every comparison with NaN is False
Gt(a, b) == a # NaN /\ b # NaN /\ a > b

Lt(a, b) == a # NaN /\ b # NaN /\ a < b

\* df[col] = v on one row: the column is added or overwritten
SetCol(r, col, v) == (col :> v) @@ r

\* df[[...]]: the row restricted to the listed columns (and its index label)
SelectCols(r, cols) == [c \in cols \cup {INDEX} |-> r[c]]

\* str.replace(old, new) on a text held as a sequence of characters;
\* new is a sequence of characters too ("" is the empty sequence)
RECURSIVE StrReplace(_, _, _)
StrReplace(s, old, new) ==
    IF s = <<>> THEN <<>>
    ELSE (IF s[1] = old THEN new ELSE <<s[1]>>) \o StrReplace(Tail(s), old, new)

Digits == {"0", "1", "2", "3", "4", "5", "6", "7", "8", "9"}

DigitValue(c) ==
    CASE c = "0" -> 0 [] c = "1" -> 1 [] c = "2" -> 2 [] c = "3" -> 3 [] c = "4" -> 4
      [] c = "5" -> 5 [] c = "6" -> 6 [] c = "7" -> 7 [] c = "8" -> 8 [] c = "9" -> 9

RECURSIVE DigitsToInt(_)
DigitsToInt(s) ==
    IF s = <<>> THEN 0
    ELSE 10 * DigitsToInt(SubSeq(s, 1, Len(s) - 1)) + DigitValue(s[Len(s)])

\* whether float(s) succeeds on a decimal literal with one fractional digit
\* at most, the only shape of REFTEXT the model feeds
IsDecimal(s) ==
    /\ s # <<>>
    /\ \A i \in DOMAIN s : s[i] \in Digits \cup {"."}
    /\ Cardinality({i \in DOMAIN s : s[i] = "."}) <= 1
    /\ \E i \in DOMAIN s : s[i] \in Digits
    /\ \A i \in DOMAIN s : s[i] = "." => i >= Len(s) - 1

\* float(s), in tenths
FloatTenths(s) ==
    LET dots == {i \in DOMAIN s : s[i] = "."}
    IN  IF dots = {} THEN 10 * DigitsToInt(s)
        ELSE LET d == CHOOSE i \in dots : TRUE
             IN  10 * DigitsToInt(SubSeq(s, 1, d - 1)) + DigitsToInt(SubSeq(s, d + 1, Len(s)))

\* Diagnose2.__init__: n.replace("<", "").replace(",", ".")
CleanRefText(n) == StrReplace(StrReplace(n, "<", <<>>), ",", <<".">>)

(***************************************************************************)
(* src/diagnostics.py: the rules exposed to the application                *)
(***************************************************************************)
\* DiagnosticClasses = [Diagnose1, Diagnose2, Diagnose4, Diagnose6, Diagnose8, Diagnose9]
DiagnosticClasses == <<1, 2, 4, 6, 8, 9>>

\* the channel codes each rule keeps in __init__, in the order of the source
ChannelsOf(cls) ==
    CASE cls = 1 -> <<"NPU02902">>
      [] cls = 2 -> <<"NPU19748">>
      [] cls = 4 -> <<"NPU19651", "NPU01684", "NPU01370">>
      [] cls = 6 -> <<"NPU18016">>
      [] cls = 8 -> <<"NPU03568">>
      [] cls = 9 -> <<"NPU19652", "NPU19653", "DNK05451", "NPU19748">>

\* the columns each rule keeps in __init__
ColumnsOf(cls) ==
    IF cls = 2 THEN {PATIENT_ID, SAMPLE_TIME, P_CODE, VALUE, REF_PATIENT}
    ELSE {PATIENT_ID, SAMPLE_TIME, P_CODE, VALUE}

\* the slider values of update_params_in_sidebar: the default of every
\* concentration slider (in tenths) and the choices of the duration sliders
ParamChoices(cls) ==
    CASE cls = 1 -> {[param_concentration |-> 5, param_days |-> d] : d \in {1, 2}}
      [] cls = 2 -> {[param_concentration |-> 1000, param_days |-> d] : d \in {1, 2}}
      [] cls = 4 -> {[param_concentration_liver |-> 450,
                      param_concentration_koagulation |-> 4,
                      param_concentration_bilirubin |-> 400]}
      [] cls = 6 -> {[param_concentration |-> 1500]}
      [] cls = 8 -> {[param_concentration |-> 100, param_hours |-> h] : h \in {24, 25}}
      [] cls = 9 -> {[param_times |-> 30]}

\* st.empty: the parameter attributes before update_params_in_sidebar
Unset == [unset |-> TRUE]

NoIds == [called |-> FALSE, ids |-> <<>>]

\* Diagnose<cls>.__init__(df)
NewDiagnose(cls, frame) ==
    LET kept == SelectSeq(frame, LAMBDA r : \E k \in DOMAIN ChannelsOf(cls) :
                                               r[P_CODE] = ChannelsOf(cls)[k])
        rows == [k \in DOMAIN kept |-> SelectCols(kept[k], ColumnsOf(cls))]
        \* Diagnose2: a REFTEXT that is no text (NaN) has no replace method, and
        \* float() rejects a text that is no number
        badRef == cls = 2 /\ \E k \in DOMAIN rows :
                      \/ rows[k][REF_PATIENT] = <<>>
                      \/ ~IsDecimal(CleanRefText(rows[k][REF_PATIENT]))
        parsed == [k \in DOMAIN rows |->
                      SetCol(rows[k], REF_PATIENT, FloatTenths(CleanRefText(rows[k][REF_PATIENT])))]
        \* Diagnose9: .dropna(subset=[VALUE])
        dropped == SelectSeq(rows, LAMBDA r : r[VALUE] # NaN)
    IN  [cls |-> cls,
         data |-> Materialized(IF badRef THEN <<>>
                               ELSE IF cls = 2 THEN parsed
                               ELSE IF cls = 9 THEN dropped
                               ELSE rows),
         columns |-> ColumnsOf(cls),
         params |-> Unset,
         calls |-> 0,
         first |-> <<>>,
         detected |-> NoIds,
         error |-> IF badRef THEN "Error" ELSE "none"]

(***************************************************************************)
(* src/diagnostics.py: run_detection of the threshold and streak rules     *)
(***************************************************************************)
\* df[DETECTION] = <series>: the values are aligned on the index label
AssignDetection(data, series) ==
    Materialized([k \in DOMAIN data |->
        SetCol(data[k], DETECTION, AtLabel(series, data[k][INDEX], "value"))])

DroppedHourFactor(n) == n

\* 24 * self.param_days
DaysToHours(n) == 24 * n

\* Diagnose1.run_detection and Diagnose8.run_detection on the rows of the rule
RunBelowCutoffStreak(data, param_concentration, hours) ==
    LET flagged == Materialized([k \in DOMAIN data |->
                       SetCol(data[k], DETECTION, Lt(data[k][VALUE], param_concentration))])
    IN  AssignDetection(flagged,
            is_streak_longer_than_duration(flagged, DETECTION, PATIENT_ID, SAMPLE_TIME, hours))

Detection2Only(d1, d2) == d2

\* detection1[DETECTION] | detection2[DETECTION]
UnionOfDetections(d1, d2) == d1 \/ d2

\* Diagnose2.run_detection on the rows of the rule
RunDiagnose2(data, param_concentration, param_days) ==
    LET detection1 == Materialized([k \in DOMAIN data |->
                          [index |-> data[k][INDEX],
                           value |-> Gt(data[k][VALUE], param_concentration)]])
        flagged == Materialized([k \in DOMAIN data |->
                       SetCol(data[k], DETECTION, Gt(data[k][VALUE], data[k][REF_PATIENT]))])
        detection2 == is_streak_longer_than_duration(flagged, DETECTION, PATIENT_ID,
                                                     SAMPLE_TIME, DaysToHours(param_days))
    IN  Materialized([k \in DOMAIN data |->
            SetCol(data[k], DETECTION,
                   UnionOfDetections(AtLabel(detection1, data[k][INDEX], "value"),
                                     AtLabel(detection2, data[k][INDEX], "value")))])

\* Diagnose6.run_detection on the rows of the rule
RunDiagnose6(data, param_concentration) ==
    Materialized([k \in DOMAIN data |->
        SetCol(data[k], DETECTION, Gt(data[k][VALUE], param_concentration))])

(***************************************************************************)
(* src/diagnostics.py: pivot_table and merge of the pivoting rules         *)
(***************************************************************************)
KeyOf(r) == <<r[PATIENT_ID], r[SAMPLE_TIME]>>

RECURSIVE SumValues(_)
SumValues(rows) == IF rows = <<>> THEN 0 ELSE rows[1][VALUE] + SumValues(Tail(rows))

\* the observations pivot_table aggregates into the cell (key, code): the
\* default aggfunc is the mean, and NaN values are skipped
CellRows(rows, key, code) ==
    SelectSeq(rows, LAMBDA r : KeyOf(r) = key /\ r[P_CODE] = code /\ r[VALUE] # NaN)

\* the mean of the cell as an exact fraction; count = 0 is a NaN cell
PivotCell(rows, key, code) ==
    LET c == CellRows(rows, key, code)
    IN  [sum |-> SumValues(c), count |-> Len(c)]

\* the columns of the pivot table: the codes that have a value
PivotColumns(rows) == {rows[k][P_CODE] : k \in {j \in DOMAIN rows : rows[j][VALUE] # NaN}}

\* the index of the pivot table: the keys that have a value
PivotKeys(rows) == {KeyOf(rows[k]) : k \in {j \in DOMAIN rows : rows[j][VALUE] # NaN}}

\* cell > cutoff and cell < cutoff; a NaN cell compares False
CellGt(cell, cutoff) == cell.count > 0 /\ cell.sum > cutoff * cell.count

CellLt(cell, cutoff) == cell.count > 0 /\ cell.sum < cutoff * cell.count

KeyRow(key, d) ==
    [NOPHO_NR |-> key[1], REALSAMPLECOLLECTIONTIME |-> key[2], detection |-> d]

\* the keys of a set in increasing (patient, time) order
RECURSIVE SortedKeys(_)
SortedKeys(S) ==
    IF S = {} THEN <<>>
    ELSE LET m == CHOOSE k \in S : \A o \in S :
                      k[1] < o[1] \/ (k[1] = o[1] /\ k[2] <= o[2])
         IN  <<m>> \o SortedKeys(S \ {m})

\* x & y of two merged columns: a cell missing on either side gives False
AndFillFalse(hasX, x, hasY, y) == hasX /\ hasY /\ x /\ y

\* detection1.merge(detection2, on=[PATIENT_ID, SAMPLE_TIME], how="outer")
\* followed by detection_x & detection_y; detection2 has one row per key
OuterMergeAnd(detection1, detection2) ==
    LET yOf(key) == SelectSeq(detection2, LAMBDA d : KeyOf(d) = key)
        leftRows == [k \in DOMAIN detection1 |->
                        LET ys == yOf(KeyOf(detection1[k]))
                        IN  KeyRow(KeyOf(detection1[k]),
                                   AndFillFalse(TRUE, detection1[k][DETECTION],
                                                ys # <<>>,
                                                IF ys = <<>> THEN FALSE ELSE ys[1][DETECTION]))]
        rightOnly == SelectSeq(detection2, LAMBDA d :
                        \A k \in DOMAIN detection1 : KeyOf(detection1[k]) # KeyOf(d))
        rightRows == [k \in DOMAIN rightOnly |->
                        KeyRow(KeyOf(rightOnly[k]),
                               AndFillFalse(FALSE, FALSE, TRUE, rightOnly[k][DETECTION]))]
    IN  sort_values(leftRows \o rightRows, PATIENT_ID, SAMPLE_TIME)

\* a cell of the detection column brought in by a left merge: the flag of the
\* matching row, or NaN where no row matches
MergedFlag(b) == IF b THEN "True" ELSE "False"

MergedNaN == "NaN"

\* one output row per matching row of right, or one row with NaN
RECURSIVE LeftMergeRows(_, _, _)
LeftMergeRows(left, right, col) ==
    IF left = <<>> THEN <<>>
    ELSE LET r == left[1]
             ms == SelectSeq(right, LAMBDA d : KeyOf(d) = KeyOf(r))
         IN  (IF ms = <<>> THEN <<SetCol(r, col, MergedNaN)>>
              ELSE [k \in DOMAIN ms |-> SetCol(r, col, MergedFlag(ms[k][DETECTION]))])
             \o LeftMergeRows(Tail(left), right, col)

RenameCol(r, old, new) ==
    [c \in (DOMAIN r \ {old}) \cup {new} |-> IF c = new THEN r[old] ELSE r[c]]

\* the merged frame gets a fresh RangeIndex
ResetIndex(rows) == Materialized([k \in DOMAIN rows |-> SetCol(rows[k], INDEX, k - 1)])

AsTypeBoolNaNFalse(c) == c = "True"

\* .astype(bool): bool(NaN) is True
AsTypeBool(c) == c # "False"

\* self.data = self.data.merge(detection, on=[PATIENT_ID, SAMPLE_TIME], how="left")
\* self.data[DETECTION] = self.data[DETECTION].astype(bool)
\* When self.data already has a detection column the two columns come out as
\* detection_x and detection_y, and reading self.data[DETECTION] raises KeyError
\* after self.data has been replaced.
MergeBack(inst, detection) ==
    IF DETECTION \in inst.columns
    THEN LET renamed == [k \in DOMAIN inst.data |->
                            RenameCol(inst.data[k], DETECTION, "detection_x")]
         IN  [inst EXCEPT
                 !.data = ResetIndex(LeftMergeRows(renamed, detection, "detection_y")),
                 !.columns = (inst.columns \ {DETECTION}) \cup {"detection_x", "detection_y"},
                 !.error = "KeyError"]
    ELSE LET merged == ResetIndex(LeftMergeRows(inst.data, detection, DETECTION))
         IN  [inst EXCEPT
                 !.data = Materialized([k \in DOMAIN merged |->
                              SetCol(merged[k], DETECTION, AsTypeBool(merged[k][DETECTION]))]),
                 !.columns = inst.columns \cup {DETECTION}]

\* Diagnose4.run_detection
RunDiagnose4(inst) ==
    LET p == inst.params
        rows1 == SelectSeq(inst.data, LAMBDA r : r[P_CODE] = "NPU19651")
        detection1 == [k \in DOMAIN rows1 |->
                          KeyRow(KeyOf(rows1[k]),
                                 Gt(rows1[k][VALUE], p.param_concentration_liver))]
        rows2 == SelectSeq(inst.data, LAMBDA r : r[P_CODE] \in {"NPU01684", "NPU01370"})
        keys2 == SortedKeys(PivotKeys(rows2))
        detection2 == [k \in DOMAIN keys2 |->
                          KeyRow(keys2[k],
                                 \/ CellLt(PivotCell(rows2, keys2[k], "NPU01684"),
                                           p.param_concentration_koagulation)
                                 \/ CellGt(PivotCell(rows2, keys2[k], "NPU01370"),
                                           p.param_concentration_bilirubin))]
    IN  IF ~({"NPU01684", "NPU01370"} \subseteq PivotColumns(rows2))
        THEN [inst EXCEPT !.error = "KeyError"]
        ELSE MergeBack(inst, OuterMergeAnd(detection1, detection2))

\* the normal limits of Diagnose9.run_detection
NPU19652_normal_limit == 120
NPU19653_normal_limit == 36
DNK05451_normal_limit == 190
NPU19748_normal_limit == 100

\* values and param_times are held in tenths
TenthsPerUnit == 10

\* Diagnose9.run_detection
RunDiagnose9(inst) ==
    LET t == inst.params.param_times
        keys == SortedKeys(PivotKeys(inst.data))
        cell(key, code) == PivotCell(inst.data, key, code)
        detection == [k \in DOMAIN keys |->
            KeyRow(keys[k],
                   /\ \/ CellGt(cell(keys[k], "NPU19652"), NPU19652_normal_limit * t)
                      \/ CellGt(cell(keys[k], "NPU19653"), NPU19653_normal_limit * t)
                      \/ CellGt(cell(keys[k], "DNK05451"), DNK05451_normal_limit * t)
                   /\ CellGt(cell(keys[k], "NPU19748"), NPU19748_normal_limit * TenthsPerUnit))]
    IN  IF ~({"NPU19652", "NPU19653", "DNK05451", "NPU19748"} \subseteq PivotColumns(inst.data))
        THEN [inst EXCEPT !.error = "KeyError"]
        ELSE MergeBack(inst, detection)

\* <rule>.run_detection(): the instance after the call
run_detection(inst) ==
    LET p == inst.params
        done(rows) == [inst EXCEPT !.data = rows, !.columns = inst.columns \cup {DETECTION}]
    IN  CASE inst.cls = 1 ->
                done(RunBelowCutoffStreak(inst.data, p.param_concentration,
                                          DaysToHours(p.param_days)))
          [] inst.cls = 2 ->
                done(RunDiagnose2(inst.data, p.param_concentration, p.param_days))
          [] inst.cls = 4 -> RunDiagnose4(inst)
          [] inst.cls = 6 -> done(RunDiagnose6(inst.data, p.param_concentration))
          [] inst.cls = 8 ->
                done(RunBelowCutoffStreak(inst.data, p.param_concentration, p.param_hours))
          [] inst.cls = 9 -> RunDiagnose9(inst)

(***************************************************************************)
(* Detection aggregator: AbstractDiagnose.get_detected_ids and the summary *)
(* of app.generate_download                                                *)
(***************************************************************************)
RECURSIVE SortedInts(_)
SortedInts(S) ==
    IF S = {} THEN <<>>
    ELSE <<SetMin(S)>> \o SortedInts(S \ {SetMin(S)})

\* a boolean read as an integer
BoolInt(b) == IF b THEN 1 ELSE 0

GroupLast(rows, p) ==
    LET g == {k \in DOMAIN rows : rows[k][PATIENT_ID] = p}
    IN  BoolInt(rows[SetMax(g)][DETECTION])

\* groupby(PATIENT_ID)[DETECTION].max() for patient p
GroupMax(rows, p) ==
    SetMax({BoolInt(rows[k][DETECTION]) : k \in {j \in DOMAIN rows : rows[j][PATIENT_ID] = p}})

PatientsOf(rows) == {rows[k][PATIENT_ID] : k \in DOMAIN rows}

\* the returned list when the detection column exists: groupby sorts the ids
DetectedIdsOf(rows) ==
    SortedInts({p \in PatientsOf(rows) : GroupMax(rows, p) = 1})

\* AbstractDiagnose.get_detected_ids
get_detected_ids(inst) ==
    IF DETECTION \notin inst.columns THEN <<>> ELSE DetectedIdsOf(inst.data)

RECURSIVE Concat(_)
Concat(frames) ==
    IF frames = <<>> THEN <<>> ELSE frames[1] \o Concat(Tail(frames))

ConcatFirstOnly(frames) == IF frames = <<>> THEN <<>> ELSE frames[1]

\* pd.concat([d.data[[PATIENT_ID, DETECTION]] for d in diagnostics])
ConcatDetections(frames) == Concat(frames)

\* generate_download: the table all_dfs, one row per patient
Summary(ds) ==
    LET all == ConcatDetections([k \in DOMAIN ds |-> ds[k].data])
        ids == SortedInts(PatientsOf(all))
    IN  [k \in DOMAIN ids |-> [NOPHO_NR |-> ids[k], PHONOTYPE |-> GroupMax(all, ids[k])]]

NoDownload == [called |-> FALSE, error |-> "none", all_dfs |-> <<>>]

generate_download(ds) ==
    IF \E k \in DOMAIN ds : DETECTION \notin ds[k].columns
    THEN [called |-> TRUE, error |-> "KeyError", all_dfs |-> <<>>]
    ELSE [called |-> TRUE, error |-> "none", all_dfs |-> Materialized(Summary(ds))]

(***************************************************************************)
(* The samples table handed to the application                             *)
(***************************************************************************)
MaxSamples == 2       \* observations of a single-channel rule
MaxExtra == 1         \* observations besides the panel of a pivoting rule
MaxSummaryRows == 1   \* observations besides the panels when two rules run
MaxStep == 1          \* sample times are 0..MaxStep steps
StepMinutes == 1500   \* minutes per step of a sample time (25 hours)

SampleTimes == {k * StepMinutes : k \in 0..MaxStep}

\* the value of a channel that sits on the default cutoff of its rule (in
\* tenths), for which the rule's comparison is false
AtCutoff(code) ==
    CASE code = "NPU02902" -> 5
      [] code = "NPU19748" -> 1000
      [] code = "NPU19651" -> 450
      [] code = "NPU01684" -> 4
      [] code = "NPU01370" -> 400
      [] code = "NPU18016" -> 1500
      [] code = "NPU03568" -> 100
      [] code = "NPU19652" -> 3600
      [] code = "NPU19653" -> 1080
      [] code = "DNK05451" -> 5700

\* the neighbouring value, for which the rule's comparison is true
Beyond(code) ==
    IF code \in {"NPU02902", "NPU01684", "NPU03568"}
    THEN AtCutoff(code) - 1 ELSE AtCutoff(code) + 1

\* what a value cell holds: the cutoff, its neighbour, or nothing (NaN)
ValueChoices == {"at", "beyond", "missing"}

SampleValue(code, choice) ==
    CASE choice = "at" -> AtCutoff(code)
      [] choice = "beyond" -> Beyond(code)
      [] choice = "missing" -> NaN

\* a REFTEXT cell that holds no text (NaN)
MissingText == <<>>

\* REFTEXT "<8,0" and "<100,5", or no text
RefTexts == {<<"<", "8", ",", "0">>, <<"<", "1", "0", "0", ",", "5">>, MissingText}

DefaultRefText == <<"<", "8", ",", "0">>

SampleRow(p, t, code, v, ref) ==
    [index |-> 0, NOPHO_NR |-> p, REALSAMPLECOLLECTIONTIME |-> t,
     OL_INVER_IUPAC_CDE |-> code, INTERNAL_REPLY_NUM |-> v, REFTEXT |-> ref]

\* the classes of a selection
ClassesOf(sel) == {DiagnosticClasses[sel[k]] : k \in DOMAIN sel}

CodesOf(classes) ==
    UNION {{ChannelsOf(c)[k] : k \in DOMAIN ChannelsOf(c)} : c \in classes}

RefTextsOf(classes) == IF 2 \in classes THEN RefTexts ELSE {DefaultRefText}

\* one observation of a channel of the selected rules
FreeCells(classes) ==
    PatientIds \X SampleTimes \X CodesOf(classes) \X ValueChoices \X RefTextsOf(classes)

FreeRow(c) == SampleRow(c[1], c[2], c[3], SampleValue(c[3], c[4]), c[5])

IsPivoting(cls) == cls \in {4, 9}

\* what one blood draw holds of a channel: no reading, or a reading on
\* either side of the cutoff
PanelChoices == {"absent", "at", "beyond"}

\* one blood draw of patient 0 at time 0 that measures channels of a pivoting
\* rule; choice[k] tells whether channel k is measured and on which side of
\* the cutoff its reading is
Panel(cls, choice) ==
    LET measured == SelectSeq([k \in DOMAIN ChannelsOf(cls) |-> k],
                              LAMBDA k : choice[k] # "absent")
    IN  [j \in DOMAIN measured |->
            SampleRow(0, 0, ChannelsOf(cls)[measured[j]],
                      SampleValue(ChannelsOf(cls)[measured[j]], choice[measured[j]]),
                      DefaultRefText)]

\* the table gets the default RangeIndex
WithRangeIndex(rows) == Materialized([k \in DOMAIN rows |-> SetCol(rows[k], INDEX, k - 1)])

StartPc == [phase |-> "start", i |-> 0]

\* one rule is selected
Init ==
    /\ df = <<>>
    /\ ret = NoCall
    /\ diagnostics = <<>>
    /\ download = NoDownload
    /\ pc = StartPc
    /\ \E s \in DOMAIN DiagnosticClasses :
        LET cls == DiagnosticClasses[s]
        IN  /\ selected = <<s>>
            /\ \E choice \in (IF IsPivoting(cls) THEN [DOMAIN ChannelsOf(cls) -> PanelChoices]
                              ELSE {<<>>}) :
               \E n \in 0..(IF IsPivoting(cls) THEN MaxExtra ELSE MaxSamples) :
               \E c \in [1..n -> FreeCells({cls})] :
                  samples = WithRangeIndex(
                                (IF IsPivoting(cls) THEN Panel(cls, choice) ELSE <<>>)
                                \o [k \in 1..n |-> FreeRow(c[k])])

\* two rules are selected; a selected pivoting rule has its panel, with every
\* channel on the same side of its cutoff
InitSummary ==
    /\ df = <<>>
    /\ ret = NoCall
    /\ diagnostics = <<>>
    /\ download = NoDownload
    /\ pc = StartPc
    /\ \E s1, s2 \in DOMAIN DiagnosticClasses :
        LET c1 == DiagnosticClasses[s1]
            c2 == DiagnosticClasses[s2]
            panel(cls, b) == IF IsPivoting(cls)
                             THEN Panel(cls, [k \in DOMAIN ChannelsOf(cls) |-> b])
                             ELSE <<>>
        IN  /\ s1 # s2
            /\ selected = <<s1, s2>>
            /\ \E b1 \in (IF IsPivoting(c1) THEN {"at", "beyond"} ELSE {"absent"}) :
               \E b2 \in (IF IsPivoting(c2) THEN {"at", "beyond"} ELSE {"absent"}) :
               \E n \in 0..MaxSummaryRows :
               \E c \in [1..n -> FreeCells({c1, c2})] :
                  samples = WithRangeIndex(
                                panel(c1, b1) \o panel(c2, b2)
                                \o [k \in 1..n |-> FreeRow(c[k])])

(***************************************************************************)
(* app.py: main                                                            *)
(***************************************************************************)
AppIdle == UNCHANGED <<df, ret, samples, selected>>

\* diagnostics = init_diagnostics(samples_with_treatment_no, selected_diagnostics)
InitDiagnostics ==
    /\ pc.phase = "start"
    /\ LET made == [k \in DOMAIN selected |->
                       NewDiagnose(DiagnosticClasses[selected[k]], samples)]
           failed == \E k \in DOMAIN made : made[k].error # "none"
       IN  /\ diagnostics' = IF failed THEN <<>> ELSE made
           /\ pc' = IF failed THEN [phase |-> "crashed", i |-> 0]
                    ELSE [phase |-> "params", i |-> 1]
    /\ UNCHANGED download
    /\ AppIdle

\* run_diagnostics: diagnostic_data.update_params_in_sidebar()
UpdateParams ==
    /\ pc.phase = "params"
    /\ \E p \in ParamChoices(diagnostics[pc.i].cls) :
        diagnostics' = [diagnostics EXCEPT ![pc.i].params = p]
    /\ pc' = [pc EXCEPT !.phase = "detect"]
    /\ UNCHANGED download
    /\ AppIdle

\* the instance after one more call of run_detection, with the call counted
\* and the rows left by the first call remembered
Called(inst) ==
    LET after == run_detection(inst)
    IN  [after EXCEPT !.calls = inst.calls + 1,
                      !.first = IF inst.calls = 0 THEN after.data ELSE inst.first]

\* run_diagnostics: diagnostic_data.run_detection()
RunDetection ==
    /\ pc.phase = "detect"
    /\ LET after == Called(diagnostics[pc.i])
       IN  /\ diagnostics' = [diagnostics EXCEPT ![pc.i] = after]
           /\ pc' = IF after.error # "none" THEN [phase |-> "crashed", i |-> pc.i]
                    ELSE IF pc.i < Len(diagnostics) THEN [phase |-> "params", i |-> pc.i + 1]
                    ELSE [phase |-> "download", i |-> 0]
    /\ UNCHANGED download
    /\ AppIdle

\* generate_download(diagnostics)
GenerateDownload ==
    /\ pc.phase = "download"
    /\ download' = generate_download(diagnostics)
    /\ pc' = IF download'.error # "none" THEN [phase |-> "crashed", i |-> 0]
             ELSE [phase |-> "ids", i |-> 1]
    /\ UNCHANGED diagnostics
    /\ AppIdle

\* the loop of main: diagnostic_data.get_detected_ids()
GetDetectedIds ==
    /\ pc.phase = "ids"
    /\ diagnostics' = [diagnostics EXCEPT ![pc.i].detected =
                          [called |-> TRUE, ids |-> get_detected_ids(diagnostics[pc.i])]]
    /\ pc' = IF pc.i < Len(diagnostics) THEN [pc EXCEPT !.i = pc.i + 1]
             ELSE [phase |-> "done", i |-> 0]
    /\ UNCHANGED download
    /\ AppIdle

\* a caller runs the detection of a rule once more, input and parameters
\* unchanged
RunDetectionAgain ==
    /\ pc.phase = "done"
    /\ \E i \in DOMAIN diagnostics :
        /\ diagnostics[i].calls = 1
        /\ diagnostics[i].error = "none"
        /\ diagnostics' = [diagnostics EXCEPT ![i] = Called(diagnostics[i])]
    /\ UNCHANGED <<download, pc>>
    /\ AppIdle

\* a caller asks for the detected ids of a rule once more
GetDetectedIdsAgain ==
    /\ pc.phase = "done"
    /\ \E i \in DOMAIN diagnostics :
        /\ diagnostics[i].calls = 2
        /\ diagnostics' = [diagnostics EXCEPT ![i].detected =
                              [called |-> TRUE, ids |-> get_detected_ids(diagnostics[i])]]
    /\ UNCHANGED <<download, pc>>
    /\ AppIdle

Next ==
    \/ InitDiagnostics
    \/ UpdateParams
    \/ RunDetection
    \/ GenerateDownload
    \/ GetDetectedIds
    \/ RunDetectionAgain
    \/ GetDetectedIdsAgain

Spec == Init /\ [][Next]_vars

SpecSummary == InitSummary /\ [][Next]_vars

(***************************************************************************)
(* Reference notions used to state the properties of the streak engine.    *)
(* They are defined on the input frame alone.                              *)
(***************************************************************************)
PositionOf(f, lbl) == CHOOSE k \in DOMAIN f : f[k][INDEX] = lbl

FrameRow(f, lbl) == f[PositionOf(f, lbl)]

\* row i comes before row j in the time order of their patient (ties: frame
\* order)
Before(f, i, j) ==
    /\ f[i][PATIENT_ID] = f[j][PATIENT_ID]
    /\ \/ f[i][SAMPLE_TIME] < f[j][SAMPLE_TIME]
       \/ f[i][SAMPLE_TIME] = f[j][SAMPLE_TIME] /\ i < j

Between(f, x, i, j) ==
    \/ Before(f, i, x) /\ Before(f, x, j)
    \/ Before(f, j, x) /\ Before(f, x, i)

\* the positions of the maximal run of equal flags that holds row k
RunOf(f, k) ==
    {q \in DOMAIN f :
        /\ f[q][PATIENT_ID] = f[k][PATIENT_ID]
        /\ f[q][DETECTION] = f[k][DETECTION]
        /\ \A x \in DOMAIN f : Between(f, x, q, k) => f[x][DETECTION] = f[k][DETECTION]}

\* last member's time minus first member's time, in minutes
RunMinutes(f, k) ==
    LET times == {f[q][SAMPLE_TIME] : q \in RunOf(f, k)}
    IN  SetMax(times) - SetMin(times)

DistinctTimestamps(f) ==
    \A i, j \in DOMAIN f :
        (i # j /\ f[i][PATIENT_ID] = f[j][PATIENT_ID]) => f[i][SAMPLE_TIME] # f[j][SAMPLE_TIME]

KeyLess(r1, r2) ==
    \/ r1[PATIENT_ID] < r2[PATIENT_ID]
    \/ r1[PATIENT_ID] = r2[PATIENT_ID] /\ r1[SAMPLE_TIME] < r2[SAMPLE_TIME]

\* the rows of f, labels kept, in increasing (patient, time) order
SortedInput(f) ==
    Materialized([k \in DOMAIN f |->
        f[CHOOSE i \in DOMAIN f :
            Cardinality({j \in DOMAIN f : KeyLess(f[j], f[i])}) = k - 1]])

IsSortedInput(f) ==
    \A k \in 1..(Len(f) - 1) : KeyLess(f[k], f[k + 1])

Values(s) == [k \in DOMAIN s |-> s[k].value]

ComputeStreaksReturned == ret.call = "compute_streaks_of_detection"

IsStreakLongerReturned == ret.call = "is_streak_longer_than_duration"

(***************************************************************************)
(* Properties of the streak engine                                         *)
(***************************************************************************)
\* C1: compute_streaks_of_detection returns the rows ordered by patient and
\* time; the first row of every patient has streak id 1, and every later row
\* has the id of the preceding row of its patient, plus 1 when the two flags
\* differ.
C1_StreakIdsFollowFlagChanges ==
    ComputeStreaksReturned =>
        LET s == ret.value
            row(k) == FrameRow(df, s[k].index)
        IN  /\ Len(s) = Len(df)
            /\ {s[k].index : k \in DOMAIN s} = {df[k][INDEX] : k \in DOMAIN df}
            /\ \A k \in 1..(Len(s) - 1) :
                  \/ row(k)[PATIENT_ID] < row(k + 1)[PATIENT_ID]
                  \/ Before(df, PositionOf(df, s[k].index), PositionOf(df, s[k + 1].index))
            /\ \A k \in DOMAIN s :
                  IF k = 1 \/ row(k - 1)[PATIENT_ID] # row(k)[PATIENT_ID]
                  THEN s[k].value = 1
                  ELSE s[k].value = s[k - 1].value
                          + (IF row(k)[DETECTION] # row(k - 1)[DETECTION] THEN 1 ELSE 0)

\* a patient reaches streak id 2 and the next patient restarts at 1
C1_Witness ==
    /\ ComputeStreaksReturned
    /\ \E k \in 1..(Len(ret.value) - 1) :
          /\ ret.value[k].value >= 2
          /\ ret.value[k + 1].value = 1
          /\ FrameRow(df, ret.value[k].index)[DETECTION]
                = FrameRow(df, ret.value[k + 1].index)[DETECTION]

\* C2: is_streak_longer_than_duration is true for a row exactly when the row's
\* flag is true and the maximal run of equal flags that holds it lasts
\* strictly more than the threshold, in hours.
C2_TrueIffLongPositiveStreak ==
    IsStreakLongerReturned =>
        \A k \in DOMAIN df :
            AtLabel(ret.value, df[k][INDEX], "value")
                = (/\ df[k][DETECTION]
                   /\ RunMinutes(df, k) > ret.n * MinutesPerHour)

\* one positive row qualifies and another positive row does not
C2_Witness ==
    /\ IsStreakLongerReturned
    /\ ret.n >= 1
    /\ \E i, j \in DOMAIN df :
          /\ df[i][DETECTION] /\ df[j][DETECTION]
          /\ AtLabel(ret.value, df[i][INDEX], "value")
          /\ ~AtLabel(ret.value, df[j][INDEX], "value")

\* C3: a row of a positive streak whose duration is at most the threshold is
\* returned false; this covers a duration equal to the threshold and a
\* single-row streak.
C3_NotLongerIsFalse ==
    IsStreakLongerReturned =>
        \A k \in DOMAIN df :
            (/\ df[k][DETECTION]
             /\ ret.n >= 0
             /\ RunMinutes(df, k) <= ret.n * MinutesPerHour)
                => ~AtLabel(ret.value, df[k][INDEX], "value")

\* a positive streak of two rows lasts exactly the threshold of one hour
C3_Witness ==
    /\ IsStreakLongerReturned
    /\ ret.n = 1
    /\ \E k \in DOMAIN df :
          /\ df[k][DETECTION]
          /\ Cardinality(RunOf(df, k)) >= 2
          /\ RunMinutes(df, k) = ret.n * MinutesPerHour
          /\ ~AtLabel(ret.value, df[k][INDEX], "value")

\* C4: a row whose flag is false is returned false, whatever the duration of
\* its streak.
C4_TrueOnlyForPositiveFlag ==
    IsStreakLongerReturned =>
        \A k \in DOMAIN df :
            AtLabel(ret.value, df[k][INDEX], "value") => df[k][DETECTION]

\* a negative streak lasts longer than the threshold
C4_Witness ==
    /\ IsStreakLongerReturned
    /\ \E k \in DOMAIN df :
          /\ ~df[k][DETECTION]
          /\ RunMinutes(df, k) > ret.n * MinutesPerHour
          /\ ~AtLabel(ret.value, df[k][INDEX], "value")

\* C5 as stated: flags [T,T,F,T,T] at hours [0,1,2,3,4] have streak ids
\* [1,1,2,3,3] and, with a threshold of 2 hours, the detection [T,T,F,T,T].
C5_Original ==
    /\ (df = ScenarioHourly /\ ComputeStreaksReturned)
          => Values(ret.value) = <<1, 1, 2, 3, 3>>
    /\ (df = ScenarioHourly /\ IsStreakLongerReturned /\ ret.n = 2)
          => Values(ret.value) = <<TRUE, TRUE, FALSE, TRUE, TRUE>>

\* C5 amended: flags [T,T,F,T,T] at hours [0,1,2,3,4] have streak ids
\* [1,1,2,3,3] and, with a threshold of 2 hours, no row is detected (no streak
\* lasts more than 1 hour); [T,T,F,T,T] is the detection for the same flags
\* at the hours [0,4,8,9,13] of the reference fixture.
C5_ScenarioDetection ==
    /\ (df = ScenarioHourly /\ ComputeStreaksReturned)
          => Values(ret.value) = <<1, 1, 2, 3, 3>>
    /\ (df = ScenarioHourly /\ IsStreakLongerReturned /\ ret.n = 2)
          => Values(ret.value) = <<FALSE, FALSE, FALSE, FALSE, FALSE>>
    /\ (df = ScenarioFixtureHours /\ IsStreakLongerReturned /\ ret.n = 2)
          => Values(ret.value) = <<TRUE, TRUE, FALSE, TRUE, TRUE>>
    /\ (df = FixtureLongStreaks /\ IsStreakLongerReturned /\ ret.n = 2)
          => Values(ret.value) = <<TRUE, TRUE, TRUE, TRUE, FALSE,
                                   TRUE, TRUE, FALSE, TRUE, TRUE>>

C5_Witness ==
    /\ df = ScenarioHourly
    /\ IsStreakLongerReturned
    /\ ret.n = 2

\* C6: is_streak_longer_than_duration returns one value per input row, under
\* the row's label and in the caller's row order; with distinct timestamps per
\* patient the value of a row is the one returned for it when the same rows
\* are handed over sorted by patient and time.
C6_RowOrderIrrelevant ==
    IsStreakLongerReturned =>
        /\ Labels(ret.value) = Labels(df)
        /\ DistinctTimestamps(df) =>
              LET sortedRet == is_streak_longer_than_duration(
                                   SortedInput(df), DETECTION, PATIENT_ID, SAMPLE_TIME, ret.n)
              IN  \A k \in DOMAIN df :
                      AtLabel(ret.value, df[k][INDEX], "value")
                          = AtLabel(sortedRet, df[k][INDEX], "value")

\* an unsorted frame with a detected row and an undetected row
C6_Witness ==
    /\ IsStreakLongerReturned
    /\ DistinctTimestamps(df)
    /\ ~IsSortedInput(df)
    /\ \E i, j \in DOMAIN df :
          /\ AtLabel(ret.value, df[i][INDEX], "value")
          /\ ~AtLabel(ret.value, df[j][INDEX], "value")

(***************************************************************************)
(* Reference notions used to state the properties of the rules and of the  *)
(* aggregator                                                              *)
(***************************************************************************)
\* the rule has computed its detection column and nothing has failed since
HasDetection(inst) == inst.calls >= 1 /\ inst.error = "none"

\* the rows of a Diagnose2 instance as a signal whose flag is value > reference
ElevatedSignal(data) ==
    Materialized([k \in DOMAIN data |->
        SignalRow(data[k][INDEX], data[k][PATIENT_ID], data[k][SAMPLE_TIME],
                  data[k][VALUE] > data[k][REF_PATIENT])])

\* row k lies in a run of elevated rows that lasts more than 24 * days hours
InSustainedRun(data, k, days) ==
    /\ ElevatedSignal(data)[k][DETECTION]
    /\ RunMinutes(ElevatedSignal(data), k) > 24 * days * MinutesPerHour

Reordered(rows, perm) == [k \in DOMAIN rows |-> rows[perm[k]]]

Reversed(s) == [k \in DOMAIN s |-> s[Len(s) + 1 - k]]

\* the patients with at least one detected row
PatientsWithDetection(rows) ==
    {rows[k][PATIENT_ID] : k \in {j \in DOMAIN rows : rows[j][DETECTION] = TRUE}}

(***************************************************************************)
(* Properties of the rules and of the aggregator                           *)
(***************************************************************************)
\* C7: after Diagnose2.run_detection the detection of every row is
\* (value > cutoff) or (the row lies in a run of consecutive rows of its
\* patient with value > reference that lasts more than 24 * param_days hours).
C7_CutoffOrSustainedRun ==
    \A i \in DOMAIN diagnostics :
        (diagnostics[i].cls = 2 /\ HasDetection(diagnostics[i])) =>
            LET d == diagnostics[i].data
                p == diagnostics[i].params
            IN  \A k \in DOMAIN d :
                    d[k][DETECTION] = (\/ d[k][VALUE] > p.param_concentration
                                       \/ InSustainedRun(d, k, p.param_days))

\* a row above the cutoff is detected although its run does not qualify,
\* next to a row that is not detected
C7_Witness ==
    \E i \in DOMAIN diagnostics :
        /\ diagnostics[i].cls = 2
        /\ HasDetection(diagnostics[i])
        /\ LET d == diagnostics[i].data
               p == diagnostics[i].params
           IN  \E k, j \in DOMAIN d :
                   /\ d[k][VALUE] > p.param_concentration
                   /\ ~InSustainedRun(d, k, p.param_days)
                   /\ d[k][DETECTION]
                   /\ ~d[j][DETECTION]

\* C8: get_detected_ids returns the patients with at least one detected row,
\* each once; the set is the same for every order of the rows, and the list
\* returned to the application is what a further call returns.
C8_DetectedIdsAreThePositivePatients ==
    \A i \in DOMAIN diagnostics :
        HasDetection(diagnostics[i]) =>
            LET inst == diagnostics[i]
                ids == get_detected_ids(inst)
            IN  /\ Range(ids) = PatientsWithDetection(inst.data)
                /\ Cardinality(Range(ids)) = Len(ids)
                /\ \A perm \in Permutations(DOMAIN inst.data) :
                      Range(get_detected_ids([inst EXCEPT
                                !.data = Reordered(inst.data, perm)])) = Range(ids)
                /\ inst.detected.called => inst.detected.ids = ids

\* a patient whose rows are detected and not detected, in either order, is
\* returned, and another patient is not
C8_Witness ==
    \E i \in DOMAIN diagnostics :
        LET inst == diagnostics[i]
        IN  /\ HasDetection(inst)
            /\ inst.detected.called
            /\ \E k, j \in DOMAIN inst.data :
                  /\ k < j
                  /\ inst.data[k][PATIENT_ID] = inst.data[j][PATIENT_ID]
                  /\ inst.data[k][DETECTION] = TRUE
                  /\ inst.data[j][DETECTION] = FALSE
                  /\ inst.data[k][PATIENT_ID] \in Range(inst.detected.ids)

\* C9: the summary has one row for every patient in the rows of any active
\* rule, with phenotype 1 when the patient is in get_detected_ids of some
\* active rule and 0 otherwise, and it is the same when the rules' outputs
\* are merged in the opposite order.
C9_SummaryIsUnionOfRules ==
    (/\ download.called
     /\ download.error = "none"
     /\ \A i \in DOMAIN diagnostics : HasDetection(diagnostics[i])) =>
        LET rows == download.all_dfs
            patients == UNION {PatientsOf(diagnostics[i].data) : i \in DOMAIN diagnostics}
            positive == UNION {Range(get_detected_ids(diagnostics[i])) :
                                  i \in DOMAIN diagnostics}
        IN  /\ {rows[k][PATIENT_ID] : k \in DOMAIN rows} = patients
            /\ Len(rows) = Cardinality(patients)
            /\ \A k \in DOMAIN rows :
                  rows[k].PHONOTYPE = IF rows[k][PATIENT_ID] \in positive THEN 1 ELSE 0
            /\ generate_download(Reversed(diagnostics)) = download

\* two rules ran: a patient is detected by the second rule only and has
\* phenotype 1, and another patient has phenotype 0
C9_Witness ==
    /\ download.called
    /\ download.error = "none"
    /\ Len(diagnostics) = 2
    /\ \A i \in DOMAIN diagnostics : HasDetection(diagnostics[i])
    /\ \E k, j \in DOMAIN download.all_dfs :
          /\ download.all_dfs[k].PHONOTYPE = 1
          /\ download.all_dfs[k][PATIENT_ID] \notin Range(get_detected_ids(diagnostics[1]))
          /\ download.all_dfs[k][PATIENT_ID] \in PatientsOf(diagnostics[1].data)
          /\ download.all_dfs[k][PATIENT_ID] \in Range(get_detected_ids(diagnostics[2]))
          /\ download.all_dfs[j].PHONOTYPE = 0

\* C10: a second call of run_detection on the same instance, input and
\* parameters unchanged, completes and leaves the rows of the rule and their
\* detection as they were after the first call.
C10_SecondRunChangesNothing ==
    \A i \in DOMAIN diagnostics :
        diagnostics[i].calls = 2 =>
            /\ diagnostics[i].error = "none"
            /\ diagnostics[i].data = diagnostics[i].first

\* C10 for the rules that assign the detection column in place: the second
\* call of Diagnose1, 2, 6 and 8 completes and changes nothing.
C10_InPlaceRulesRerun ==
    \A i \in DOMAIN diagnostics :
        (diagnostics[i].calls = 2 /\ diagnostics[i].cls \in {1, 2, 6, 8}) =>
            /\ diagnostics[i].error = "none"
            /\ diagnostics[i].data = diagnostics[i].first

\* the second call of a rule that assigns in place has run on rows of which
\* one is detected
C10_Witness ==
    \E i \in DOMAIN diagnostics :
        /\ diagnostics[i].calls = 2
        /\ diagnostics[i].cls \in {1, 2, 6, 8}
        /\ \E k \in DOMAIN diagnostics[i].data : diagnostics[i].data[k][DETECTION]

(***************************************************************************)
(* Properties of the rules on incomplete and repeated observations         *)
(***************************************************************************)
\* the channels of a rule
RequiredCodes(cls) == {ChannelsOf(cls)[k] : k \in DOMAIN ChannelsOf(cls)}

\* the input has no observation at all of the channel
ChannelAbsent(code) == \A k \in DOMAIN samples : samples[k][P_CODE] # code

\* the input has no observation of the channel that carries a value
ChannelUnmeasured(code) ==
    \A k \in DOMAIN samples : samples[k][P_CODE] = code => samples[k][VALUE] = NaN

\* run_detection has been called on the instance
HasRun(inst) == inst.calls >= 1

\* the channels whose column run_detection reads from the pivoted table
PivotedCodes(cls) ==
    CASE cls = 4 -> {"NPU01684", "NPU01370"}
      [] cls = 9 -> RequiredCodes(9)
      [] OTHER -> {}

\* C11: when a channel that the rule requires has no observation in the
\* input, run_detection completes without an error and no row is detected.
C11_MissingChannelYieldsNoDetection ==
    \A i \in DOMAIN diagnostics :
        (/\ HasRun(diagnostics[i])
         /\ \E code \in RequiredCodes(diagnostics[i].cls) : ChannelAbsent(code)) =>
            /\ diagnostics[i].error = "none"
            /\ \A k \in DOMAIN diagnostics[i].data :
                  diagnostics[i].data[k][DETECTION] = FALSE

\* C11 as the code behaves: the first call of run_detection of Diagnose4 and
\* Diagnose9 raises KeyError exactly when a channel whose pivot column it
\* reads has no observation that carries a value; the other rules complete.
C11_MissingPivotColumnRaises ==
    \A i \in DOMAIN diagnostics :
        (HasRun(diagnostics[i]) /\ diagnostics[i].calls = 1) =>
            (diagnostics[i].error = "KeyError")
                = (\E code \in PivotedCodes(diagnostics[i].cls) : ChannelUnmeasured(code))

\* Diagnose9 has run on an input that has three of its four channels, and
\* the call has raised
C11_Witness ==
    \E i \in DOMAIN diagnostics :
        /\ diagnostics[i].cls = 9
        /\ HasRun(diagnostics[i])
        /\ Cardinality({code \in RequiredCodes(9) : ChannelAbsent(code)}) = 1
        /\ diagnostics[i].error = "KeyError"

\* the application has stopped in init_diagnostics: a constructor has raised
InitFailed == pc.phase = "crashed" /\ diagnostics = <<>>

\* every channel of the rule has an observation in the input
AllChannelsObserved(cls) == \A code \in RequiredCodes(cls) : ~ChannelAbsent(code)

\* C12: a row whose value (for Diagnose2, whose reference value) is missing
\* is never detected, and the evaluation of the rule completes without an
\* error.
C12_MissingValueNeverDetected ==
    /\ ~InitFailed
    /\ \A i \in DOMAIN diagnostics :
        (diagnostics[i].calls = 1 /\ AllChannelsObserved(diagnostics[i].cls)) =>
            /\ diagnostics[i].error = "none"
            /\ \A k \in DOMAIN diagnostics[i].data :
                  diagnostics[i].data[k][VALUE] = NaN
                      => diagnostics[i].data[k][DETECTION] = FALSE

\* C12 for the rules that compare the value of the row itself: after
\* run_detection of Diagnose1, 2, 6, 8 and 9 no row without a value is
\* detected, and Diagnose9 holds no such row.
C12_ComparingRulesSkipMissing ==
    \A i \in DOMAIN diagnostics :
        (HasDetection(diagnostics[i]) /\ diagnostics[i].cls # 4) =>
            \A k \in DOMAIN diagnostics[i].data :
                diagnostics[i].data[k][VALUE] = NaN
                    => (diagnostics[i].cls # 9 /\ diagnostics[i].data[k][DETECTION] = FALSE)

\* Diagnose4 has run without an error on an input that has all its channels,
\* and a row without a value is detected
C12_Witness ==
    \E i \in DOMAIN diagnostics :
        /\ diagnostics[i].cls = 4
        /\ diagnostics[i].calls = 1
        /\ diagnostics[i].error = "none"
        /\ AllChannelsObserved(4)
        /\ \E k \in DOMAIN diagnostics[i].data :
              /\ diagnostics[i].data[k][VALUE] = NaN
              /\ diagnostics[i].data[k][DETECTION] = TRUE

\* Diagnose2 has been given a row without a reference text, and its
\* constructor has raised
C12_MissingReferenceStopsInit ==
    /\ InitFailed
    /\ \E k \in DOMAIN samples :
          samples[k][P_CODE] = "NPU19748" /\ samples[k][REF_PATIENT] = MissingText

\* the positions of the observations of a channel at one (patient, timestamp)
ReadingsAt(rows, key, code) ==
    {k \in DOMAIN rows : KeyOf(rows[k]) = key /\ rows[k][P_CODE] = code}

\* the first observation in input order exceeds, resp. is below, the cutoff
FirstExceeds(rows, key, code, cutoff) ==
    /\ ReadingsAt(rows, key, code) # {}
    /\ Gt(rows[SetMin(ReadingsAt(rows, key, code))][VALUE], cutoff)

FirstBelow(rows, key, code, cutoff) ==
    /\ ReadingsAt(rows, key, code) # {}
    /\ Lt(rows[SetMin(ReadingsAt(rows, key, code))][VALUE], cutoff)

\* the mean of the observations that carry a value exceeds, resp. is below,
\* the cutoff
MeanExceeds(rows, key, code, cutoff) == CellGt(PivotCell(rows, key, code), cutoff)

MeanBelow(rows, key, code, cutoff) == CellLt(PivotCell(rows, key, code), cutoff)

\* the condition of a pivoting rule at one (patient, timestamp), for a given
\* reading of "the channel exceeds / is below the cutoff"
RuleVerdict(cls, p, rows, key, Exceeds(_, _, _, _), Below(_, _, _, _)) ==
    IF cls = 4
    THEN /\ Exceeds(rows, key, "NPU19651", p.param_concentration_liver)
         /\ \/ Below(rows, key, "NPU01684", p.param_concentration_koagulation)
            \/ Exceeds(rows, key, "NPU01370", p.param_concentration_bilirubin)
    ELSE /\ \/ Exceeds(rows, key, "NPU19652", 120 * p.param_times)
            \/ Exceeds(rows, key, "NPU19653", 36 * p.param_times)
            \/ Exceeds(rows, key, "DNK05451", 190 * p.param_times)
         /\ Exceeds(rows, key, "NPU19748", 100 * 10)

\* no observation of the rule lacks a value
NoMissingValue(cls) ==
    \A k \in DOMAIN samples :
        samples[k][P_CODE] \in RequiredCodes(cls) => samples[k][VALUE] # NaN

\* at most one NPU19651 observation per (patient, timestamp)
SingleLiverReading ==
    \A i, j \in DOMAIN samples :
        (/\ samples[i][P_CODE] = "NPU19651" /\ samples[j][P_CODE] = "NPU19651"
         /\ KeyOf(samples[i]) = KeyOf(samples[j])) => i = j

\* the first call of a pivoting rule on an input that has a value for every
\* observation, all channels of the rule, and one NPU19651 per timestamp
PivotingRuleRan(inst) ==
    /\ inst.cls \in {4, 9}
    /\ inst.calls = 1
    /\ AllChannelsObserved(inst.cls)
    /\ NoMissingValue(inst.cls)
    /\ SingleLiverReading

\* C13: when several observations of a channel share one (patient,
\* timestamp), Diagnose4 and Diagnose9 do not fail and evaluate the pivot
\* cell on the first of those observations in input order.
C13_FirstObservationWins ==
    \A i \in DOMAIN diagnostics :
        PivotingRuleRan(diagnostics[i]) =>
            LET inst == diagnostics[i]
            IN  /\ inst.error = "none"
                /\ \A k \in DOMAIN inst.data :
                      inst.data[k][DETECTION]
                          = RuleVerdict(inst.cls, inst.params, inst.data,
                                        KeyOf(inst.data[k]), FirstExceeds, FirstBelow)

\* C13 as the code behaves: the rules do not fail, and evaluate the pivot
\* cell on the mean of the observations that share the (patient, timestamp).
C13_MeanOfObservations ==
    \A i \in DOMAIN diagnostics :
        PivotingRuleRan(diagnostics[i]) =>
            LET inst == diagnostics[i]
            IN  /\ inst.error = "none"
                /\ \A k \in DOMAIN inst.data :
                      inst.data[k][DETECTION]
                          = RuleVerdict(inst.cls, inst.params, inst.data,
                                        KeyOf(inst.data[k]), MeanExceeds, MeanBelow)

\* a pivot cell holds two observations; the rows of its timestamp are
\* detected although the first observation does not satisfy the rule
C13_Witness ==
    \E i \in DOMAIN diagnostics :
        /\ PivotingRuleRan(diagnostics[i])
        /\ diagnostics[i].error = "none"
        /\ \E k \in DOMAIN diagnostics[i].data :
              /\ \E code \in PivotedCodes(diagnostics[i].cls) :
                    Cardinality(ReadingsAt(diagnostics[i].data,
                                           KeyOf(diagnostics[i].data[k]), code)) = 2
              /\ diagnostics[i].data[k][DETECTION] = TRUE
              /\ ~RuleVerdict(diagnostics[i].cls, diagnostics[i].params, diagnostics[i].data,
                              KeyOf(diagnostics[i].data[k]), FirstExceeds, FirstBelow)

\* the observation a row of a rule carries: its cells in the columns the rule
\* keeps, without the index label and the detection
Observation(cls, r) == [c \in ColumnsOf(cls) |-> r[c]]

\* the rows the instance held before run_detection was called
RowsBefore(inst) == NewDiagnose(inst.cls, samples).data

\* the rows are those held before the call, each with one boolean detection
SameRowsWithDetection(inst) ==
    /\ Len(inst.data) = Len(RowsBefore(inst))
    /\ \A k \in DOMAIN inst.data :
          /\ Observation(inst.cls, inst.data[k]) = Observation(inst.cls, RowsBefore(inst)[k])
          /\ inst.data[k][DETECTION] \in BOOLEAN

\* C14: after run_detection the rule holds exactly the observation rows it
\* held before the call, each with one boolean detection; no row is added,
\* dropped or duplicated, also when observations share a (patient, timestamp).
C14_RowSetIsKept ==
    \A i \in DOMAIN diagnostics :
        (diagnostics[i].calls = 1 /\ diagnostics[i].error = "none") =>
            SameRowsWithDetection(diagnostics[i])

\* C14 as the code behaves: the rows are kept by every rule but Diagnose4,
\* and by Diagnose4 when no (patient, timestamp) has two NPU19651
\* observations.
C14_RowSetIsKeptWithoutRepeatedLiver ==
    \A i \in DOMAIN diagnostics :
        (/\ diagnostics[i].calls = 1
         /\ diagnostics[i].error = "none"
         /\ (diagnostics[i].cls = 4 => SingleLiverReading)) =>
            SameRowsWithDetection(diagnostics[i])

\* Diagnose4 has run on two NPU19651 observations of one (patient,
\* timestamp) and holds more rows than before
C14_Witness ==
    \E i \in DOMAIN diagnostics :
        /\ diagnostics[i].cls = 4
        /\ diagnostics[i].calls = 1
        /\ diagnostics[i].error = "none"
        /\ ~SingleLiverReading
        /\ Len(diagnostics[i].data) > Len(RowsBefore(diagnostics[i]))

\* the rows of a Diagnose1 or Diagnose8 instance as a signal whose flag is
\* value < cutoff
BelowCutoffSignal(data, cutoff) ==
    Materialized([k \in DOMAIN data |->
        SignalRow(data[k][INDEX], data[k][PATIENT_ID], data[k][SAMPLE_TIME],
                  data[k][VALUE] # NaN /\ data[k][VALUE] < cutoff)])

\* the duration a run has to exceed, in hours
RequiredHours(inst) ==
    IF inst.cls = 1 THEN 24 * inst.params.param_days ELSE inst.params.param_hours

\* C15: after Diagnose1.run_detection (Diagnose8.run_detection) a row is
\* detected exactly when its value is below the cutoff and the maximal run of
\* consecutive below-cutoff rows of its patient, in time order, that holds it
\* lasts strictly more than 24 * param_days hours (param_hours hours).
C15_BelowCutoffForLongerThanDuration ==
    \A i \in DOMAIN diagnostics :
        (diagnostics[i].cls \in {1, 8} /\ HasDetection(diagnostics[i])) =>
            LET d == diagnostics[i].data
                sig == BelowCutoffSignal(d, diagnostics[i].params.param_concentration)
            IN  \A k \in DOMAIN d :
                    d[k][DETECTION]
                        = (/\ sig[k][DETECTION]
                           /\ RunMinutes(sig, k)
                                 > RequiredHours(diagnostics[i]) * MinutesPerHour)

\* Diagnose1 has two below-cutoff rows of one patient 25 hours apart: they
\* are detected with param_days = 1
C15_Witness ==
    \E i \in DOMAIN diagnostics :
        /\ diagnostics[i].cls = 1
        /\ HasDetection(diagnostics[i])
        /\ diagnostics[i].params.param_days = 1
        /\ \E k, j \in DOMAIN diagnostics[i].data :
              /\ k # j
              /\ diagnostics[i].data[k][DETECTION]
              /\ diagnostics[i].data[j][DETECTION]

\* Diagnose8 has two below-cutoff rows of one patient whose run lasts exactly
\* param_hours: they are not detected
C15_WitnessAtThreshold ==
    \E i \in DOMAIN diagnostics :
        /\ diagnostics[i].cls = 8
        /\ HasDetection(diagnostics[i])
        /\ LET d == diagnostics[i].data
               sig == BelowCutoffSignal(d, diagnostics[i].params.param_concentration)
           IN  \E k \in DOMAIN d :
                  /\ sig[k][DETECTION]
                  /\ RunMinutes(sig, k) = diagnostics[i].params.param_hours * MinutesPerHour
                  /\ ~d[k][DETECTION]

\* some observation of the channel at the (patient, timestamp) exceeds,
\* resp. is below, the cutoff
AnyExceeds(rows, key, code, cutoff) ==
    \E k \in ReadingsAt(rows, key, code) : Gt(rows[k][VALUE], cutoff)

AnyBelow(rows, key, code, cutoff) ==
    \E k \in ReadingsAt(rows, key, code) : Lt(rows[k][VALUE], cutoff)

\* the rows of the rule in the input, before the constructor filters them
InputRows(cls) == SelectSeq(samples, LAMBDA r : r[P_CODE] \in RequiredCodes(cls))

\* the rule's condition holds at the (patient, timestamp) of some input row
VerdictHoldsSomewhere(cls, p) ==
    \E k \in DOMAIN InputRows(cls) :
        RuleVerdict(cls, p, InputRows(cls), KeyOf(InputRows(cls)[k]), AnyExceeds, AnyBelow)

\* every channel has at most one observation per (patient, timestamp)
SingleReadings(cls) ==
    \A i, j \in DOMAIN samples :
        (/\ samples[i][P_CODE] \in RequiredCodes(cls)
         /\ samples[i][P_CODE] = samples[j][P_CODE]
         /\ KeyOf(samples[i]) = KeyOf(samples[j])) => i = j

\* every channel whose pivot column the rule reads has an observation that
\* carries a value
PivotColumnsMeasured(cls) == \A code \in PivotedCodes(cls) : ~ChannelUnmeasured(code)

\* every row of the instance carries the rule's condition at its own
\* (patient, timestamp)
DetectionIsVerdictAtOwnKey(inst) ==
    \A k \in DOMAIN inst.data :
        inst.data[k][DETECTION]
            = RuleVerdict(inst.cls, inst.params, inst.data, KeyOf(inst.data[k]),
                          AnyExceeds, AnyBelow)

\* C16: after Diagnose4.run_detection a row is detected exactly when its own
\* (patient, timestamp) has an NPU19651 reading above the liver cutoff and
\* (an NPU01684 reading below the coagulation cutoff or an NPU01370 reading
\* above the bilirubin cutoff); a missing reading makes its condition false,
\* and no error is raised.
C16_LiverAndCoagulationOrBilirubin ==
    \A i \in DOMAIN diagnostics :
        (diagnostics[i].cls = 4 /\ diagnostics[i].calls = 1) =>
            /\ diagnostics[i].error = "none"
            /\ DetectionIsVerdictAtOwnKey(diagnostics[i])

\* C16 as the code behaves: the statement holds when NPU01684 and NPU01370
\* both occur with a value somewhere in the input, no observation lacks a
\* value and no channel is observed twice at one (patient, timestamp).
C16_HoldsOnCompleteSingleReadings ==
    \A i \in DOMAIN diagnostics :
        (/\ diagnostics[i].cls = 4
         /\ diagnostics[i].calls = 1
         /\ PivotColumnsMeasured(4)
         /\ NoMissingValue(4)
         /\ SingleReadings(4)) =>
            /\ diagnostics[i].error = "none"
            /\ DetectionIsVerdictAtOwnKey(diagnostics[i])

\* one timestamp has NPU19651 above and NPU01684 below their cutoffs, the
\* input has no NPU01370 observation, and run_detection has raised
C16_Witness ==
    \E i \in DOMAIN diagnostics :
        /\ diagnostics[i].cls = 4
        /\ diagnostics[i].calls = 1
        /\ ChannelAbsent("NPU01370")
        /\ VerdictHoldsSomewhere(4, diagnostics[i].params)
        /\ diagnostics[i].error = "KeyError"

\* the complete case: a timestamp that has both sides is detected next to a
\* timestamp that lacks one side
C16_WitnessComplete ==
    \E i \in DOMAIN diagnostics :
        /\ diagnostics[i].cls = 4
        /\ diagnostics[i].calls = 1
        /\ PivotColumnsMeasured(4) /\ NoMissingValue(4) /\ SingleReadings(4)
        /\ \E k, j \in DOMAIN diagnostics[i].data :
              /\ diagnostics[i].data[k][DETECTION] = TRUE
              /\ diagnostics[i].data[j][DETECTION] = FALSE
              /\ KeyOf(diagnostics[i].data[k]) # KeyOf(diagnostics[i].data[j])

\* C17: after Diagnose9.run_detection a row is detected exactly when, at its
\* own (patient, timestamp), (NPU19652 > 120 * param_times or NPU19653 >
\* 36 * param_times or DNK05451 > 190 * param_times) and NPU19748 > 100, a
\* channel without a reading at that timestamp counting as not exceeding;
\* readings at other timestamps or of other patients do not matter.
C17_AnyOfThreeAndGate ==
    \A i \in DOMAIN diagnostics :
        (diagnostics[i].cls = 9 /\ diagnostics[i].calls = 1) =>
            /\ diagnostics[i].error = "none"
            /\ DetectionIsVerdictAtOwnKey(diagnostics[i])

\* C17 as the code behaves: the statement holds when each of the four
\* channels occurs with a value somewhere in the input and no channel is
\* observed twice at one (patient, timestamp).
C17_HoldsOnCompleteSingleReadings ==
    \A i \in DOMAIN diagnostics :
        (/\ diagnostics[i].cls = 9
         /\ diagnostics[i].calls = 1
         /\ PivotColumnsMeasured(9)
         /\ SingleReadings(9)) =>
            /\ diagnostics[i].error = "none"
            /\ DetectionIsVerdictAtOwnKey(diagnostics[i])

\* one timestamp satisfies the condition of Diagnose9, a channel that is not
\* needed for it has no observation anywhere, and run_detection has raised
C17_Witness ==
    \E i \in DOMAIN diagnostics :
        /\ diagnostics[i].cls = 9
        /\ diagnostics[i].calls = 1
        /\ \E code \in RequiredCodes(9) : ChannelAbsent(code)
        /\ VerdictHoldsSomewhere(9, diagnostics[i].params)
        /\ diagnostics[i].error = "KeyError"

\* the complete case: a timestamp that satisfies the condition is detected
\* next to a row of another timestamp that is not
C17_WitnessComplete ==
    \E i \in DOMAIN diagnostics :
        /\ diagnostics[i].cls = 9
        /\ diagnostics[i].calls = 1
        /\ PivotColumnsMeasured(9) /\ SingleReadings(9)
        /\ \E k, j \in DOMAIN diagnostics[i].data :
              /\ diagnostics[i].data[k][DETECTION] = TRUE
              /\ diagnostics[i].data[j][DETECTION] = FALSE
              /\ KeyOf(diagnostics[i].data[k]) # KeyOf(diagnostics[i].data[j])

====
